---------------------------- MODULE Spec2Model ----------------------------
(***************************************************************************)
(* The conversation engine of discord-hvz (src/chatbot.py): the session    *)
(* registry ChatBotManager.active_chatbots, the ChatBot session objects    *)
(* and the coroutines start_chatbot and on_message, which the asyncio      *)
(* event loop interleaves at every await (the sends).                      *)
(*                                                                         *)
(* The model begins once the cog is loaded and loaded_scripts is filled;   *)
(* it follows the method bodies statement by statement, the exceptions     *)
(* they raise on their own included.  A send (chat_member.send,            *)
(* message.reply) is the only await: the coroutine is suspended there and  *)
(* the send then either returns or raises.  ChatBot.end, the only writer   *)
(* of the database, has no caller, so no action changes rows.              *)
(*                                                                         *)
(* Three further parts follow the conversation engine, each with its own   *)
(* specification over its own variables: the loading of scripts.yml by     *)
(* ChatBotManager.__init__ (LoadSpec), the persistence layer HvzDb of      *)
(* src/discord_hvz/database.py (DbSpec), and the side-channel lifecycle    *)
(* ThreadManager of src/discord_hvz/chatbot/threads.py (ThreadSpec).       *)
(***************************************************************************)
EXTENDS Integers, Sequences, FiniteSets, TLC

VARIABLES
    active_chatbots,  \* the registry dict, as a set of [key, val] items
    chatbots,         \* the live ChatBot objects, by object identity
    tasks,            \* coroutines suspended in an await
    outbox,           \* per participant: the last message delivered to them
    result,           \* per participant: how their last call (start_chatbot or
                      \* on_message) stands: "running" while it awaits a send
    rows,             \* rows written to the database by a conversation
    scripts_data,     \* scripts.yml as parsed by yaml.safe_load
    catalog,          \* ChatBotManager.loaded_scripts while it is filled
    loader,           \* how ChatBotManager.__init__ stands
    database_config,  \* HvzDb.database_config, an ordered dict
    disk,             \* the SQLite file: its physical tables and their rows
    tables,           \* HvzDb.tables, the Table objects by key
    call,             \* the last call made on the HvzDb object
    hooks,            \* sheet_interface.update_table calls of the last call
    threads,          \* the Discord threads that exist in the guild
    cleanup           \* the on_ready coroutine of the ThreadManager

chat_vars == <<active_chatbots, chatbots, tasks, outbox, result, rows>>
load_vars == <<scripts_data, catalog, loader>>
db_vars == <<database_config, disk, tables, call, hooks>>
thread_vars == <<threads, cleanup>>
vars == <<chat_vars, load_vars, db_vars, thread_vars>>

----------------------------------------------------------------------------
(* Python's None and a present value *)
None == <<>>
Some(x) == <<x>>

(* the parts of the state a specification does not use stay as they are *)
LoadOff == scripts_data = <<>> /\ catalog = {} /\ loader = "off"
DbOff ==
    /\ database_config = <<>> /\ disk = {} /\ tables = {}
    /\ call = None /\ hooks = <<>>
ThreadOff == threads = {} /\ cleanup = None

(* the participants (discord.Member ids) and the ChatBot objects alive at once *)
Members == {"p1"}
MaxChatBots == 2
ChatBotIds == 1 .. MaxChatBots

ChatOff ==
    /\ active_chatbots = {} /\ chatbots = <<>> /\ tasks = {}
    /\ outbox = [p \in Members |-> None]
    /\ result = [p \in Members |-> "none"]
    /\ rows = <<>>

----------------------------------------------------------------------------
(* Text.  A string is a sequence of tokens: "1" a digit, "m" the raw       *)
(* markup of a mention (<@id>), "u" the rendered mention (@name), and the  *)
(* words "yes" and "email".                                                *)

(* message.content of the direct messages a participant sends *)
Contents == { <<"1">>, <<"1", "m">>, <<"yes">>, <<"email">> }

(* discord.Message.clean_content: mentions are rendered, the rest is kept *)
CleanContent(content) ==
    [i \in DOMAIN content |-> IF content[i] = "m" THEN "u" ELSE content[i]]

(* regex.fullmatch(pattern, string) for the patterns [cls]{min,max}:       *)
(* the whole string, not a prefix of it, must match                        *)
FullMatch(pattern, string) ==
    /\ Len(string) >= pattern.min
    /\ Len(string) <= pattern.max
    /\ \A i \in DOMAIN string : string[i] \in pattern.cls

Digits == [cls |-> {"1"}, min |-> 1, max |-> 2]

----------------------------------------------------------------------------
(* scripts.yml as loaded into ChatBotManager.loaded_scripts.  Every        *)
(* question passes Question.__post_init__, which checks the three required *)
(* attributes and (its coupled-attribute loop never fires) nothing else.   *)

Question(name, display_name, query, valid_regex, rejection_response) ==
    [name |-> name, display_name |-> display_name, query |-> query,
     valid_regex |-> valid_regex, rejection_response |-> rejection_response]

loaded_scripts ==
    [kind \in {"registration", "tag_logging"} |->
        IF kind = "registration"
        THEN [beginning |-> "Welcome to registration", ending |-> "Registered",
              table |-> "members",
              questions |-> <<
                  Question("email", "Email", "What is your email?",
                           Some(Digits), Some("That is not an email.")),
                  Question("name", "Name", "What is your name?", None, None) >>]
        ELSE [beginning |-> "Log a tag", ending |-> "Tag logged",
              table |-> "tags",
              questions |-> <<
                  Question("tag_code", "Tag Code", "What is the tag code?",
                           Some(Digits), None) >>]]

Kinds == DOMAIN loaded_scripts

(* ChatBotScript.length *)
Length(kind) == Len(loaded_scripts[kind].questions)

(* ChatBotScript.get_question: list indexing, IndexError out of range *)
HasQuestion(kind, question_number) ==
    question_number >= 0 /\ question_number < Length(kind)

get_question(kind, question_number) ==
    loaded_scripts[kind].questions[question_number + 1]

(* ChatBotScript.response_dict: every question name, each with None *)
response_dict(kind) ==
    [n \in {loaded_scripts[kind].questions[i].name : i \in 1 .. Length(kind)}
        |-> None]

----------------------------------------------------------------------------
(* outgoing messages: the text parts in the order they are concatenated *)
Part(t, v, answer) == [t |-> t, v |-> v, answer |-> answer]
Text(v) == Part("text", v, None)

CriticalNotice ==
    << Text("The chatbot had a critical error. You will need to retry from the beginning.") >>

----------------------------------------------------------------------------
(* dict operations on the registry *)
DictGet(d, k) ==
    IF \E e \in d : e.key = k
    THEN Some((CHOOSE e \in d : e.key = k).val)
    ELSE None

DictSet(d, k, v) == {e \in d : e.key # k} \cup {[key |-> k, val |-> v]}

(* dict.clear() in the place of dict.pop(key) *)
DictPop_all(d, k) == {}
DictPop(d, k) == {e \in d : e.key # k}

(* objects stay alive while the registry or a suspended coroutine holds them *)
Referenced(registry, coroutines) ==
    {e.val : e \in registry} \cup {t.chatbot : t \in coroutines}

Collect(heap, registry, coroutines) ==
    [id \in (DOMAIN heap) \cap Referenced(registry, coroutines) |-> heap[id]]

----------------------------------------------------------------------------
(* the attributes of a ChatBot had the class a kind of its own *)
ChatBotAttributes_kind ==
    {"kind", "script", "database", "chat_member", "target_member", "processing",
     "reviewing", "last_asked_question", "responses",
     "start", "ask_question", "receive", "review", "end"}

(* the attributes an object of each class has; reading any other raises    *)
(* AttributeError                                                          *)
ChatBotAttributes ==
    {"script", "database", "chat_member", "target_member", "processing",
     "reviewing", "last_asked_question", "responses",
     "start", "ask_question", "receive", "review", "end"}

ChatBotScriptAttributes ==
    {"kind", "_questions", "beginning", "ending", "table",
     "length", "response_dict", "get_question"}

(* a ChatBot whose __post_init__ did not run: responses is left None, here *)
(* an empty dict, and target_member is as given                            *)
NewChatBot_bare(kind, chat_member, target_member) ==
    [script |-> kind,
     chat_member |-> chat_member,
     target_member |-> IF target_member = None THEN "" ELSE target_member[1],
     processing |-> FALSE,
     reviewing |-> FALSE,
     last_asked_question |-> 0,
     responses |-> <<>>]

(* ChatBot.__init__ and __post_init__ *)
NewChatBot(kind, chat_member, target_member) ==
    [script |-> kind,
     chat_member |-> chat_member,
     target_member |-> IF target_member = None THEN chat_member
                       ELSE target_member[1],
     processing |-> FALSE,
     reviewing |-> FALSE,
     last_asked_question |-> 0,
     responses |-> response_dict(kind)]

(* What a coroutine body does up to its first await: the session as it     *)
(* leaves it, and then either a send to await (out = "ask_question" or     *)
(* "reply", with the message and the index ask_question assigns after the  *)
(* send) or an exception (out = "raise").                                  *)
Step(chatbot, out, msg, qn, exc) ==
    [chatbot |-> chatbot, out |-> out, msg |-> msg, qn |-> qn, exc |-> exc]

(* ask_question as it would be if it assigned question 0 after every send *)
ask_question_unnumbered(self, question_number, starting, existing_chatbot_kind) ==
    IF ~HasQuestion(self.script, question_number)
    THEN Step(self, "raise", <<>>, question_number, "IndexError")
    ELSE Step(self, "ask_question",
              (IF starting THEN << Text(loaded_scripts[self.script].beginning) >>
               ELSE <<>>) \o << Text(get_question(self.script, question_number).query) >>,
              0, "")

(* ChatBot.ask_question up to the await of chat_member.send *)
ask_question(self, question_number, starting, existing_chatbot_kind) ==
    IF ~HasQuestion(self.script, question_number)
    THEN Step(self, "raise", <<>>, question_number, "IndexError")
    ELSE LET question == get_question(self.script, question_number)
             cancelled == IF existing_chatbot_kind # None
                          THEN << Part("cancelled", existing_chatbot_kind[1], None) >>
                          ELSE <<>>
             opening == IF starting
                        THEN << Text(loaded_scripts[self.script].beginning) >>
                        ELSE <<>>
         IN  Step(self, "ask_question",
                  cancelled \o opening \o << Text(question.query) >>,
                  question_number, "")

(* ChatBot.review: sets the flag, then fails while building the message:   *)
(* get_question(1) is out of range for a one-question script, and the      *)
(* script object has no attribute "questions"                              *)
review(self) ==
    LET flagged == [self EXCEPT !.reviewing = TRUE]
    IN  IF ~HasQuestion(self.script, 1)
        THEN Step(flagged, "raise", <<>>, 0, "IndexError")
        ELSE IF "questions" \notin ChatBotScriptAttributes
        THEN Step(flagged, "raise", <<>>, 0, "AttributeError")
        ELSE Step(flagged, "review",
                  << Text("Type yes to submit.") >> \o
                  [i \in 1 .. Length(self.script) |->
                      Part("answer",
                           loaded_scripts[self.script].questions[i].display_name,
                           self.responses[loaded_scripts[self.script].questions[i].name])],
                  0, "")

(* receive as it would be if it went to the review one question early *)
receive_hasty(self, content) ==
    LET question == get_question(self.script, self.last_asked_question)
        stored   == [self EXCEPT !.responses[question.name] = Some(CleanContent(content))]
    IN  IF question.valid_regex # None
           /\ ~FullMatch(question.valid_regex[1], content)
        THEN Step(self, "reply", <<>>, 0, "")
        ELSE IF self.last_asked_question + 2 >= Length(self.script)
             THEN review(stored)
             ELSE ask_question(stored, self.last_asked_question + 1, FALSE, None)

(* ChatBot.receive up to its first await *)
receive(self, content) ==
    LET question == get_question(self.script, self.last_asked_question)
        response == CleanContent(content)
        stored   == [self EXCEPT !.responses[question.name] = Some(response)]
    IN  IF question.valid_regex # None
           /\ ~FullMatch(question.valid_regex[1], content)
        THEN IF question.rejection_response = None
             THEN Step(self, "raise", <<>>, 0, "TypeError")
             ELSE Step(self, "reply",
                       << Text(question.rejection_response[1]),
                          Text("Please answer again.") >>,
                       0, "")
        ELSE IF self.last_asked_question + 1 >= Length(self.script)
             THEN review(stored)
             ELSE ask_question(stored, self.last_asked_question + 1, FALSE, None)

----------------------------------------------------------------------------
Init ==
    /\ active_chatbots = {}
    /\ chatbots = <<>>
    /\ tasks = {}
    /\ outbox = [p \in Members |-> None]
    /\ result = [p \in Members |-> "none"]
    /\ rows = <<>>
    /\ LoadOff /\ DbOff /\ ThreadOff

(* a suspended coroutine: which one, for whom, on which ChatBot object,    *)
(* the send it awaits (pc), the message, and the pending index             *)
Task(coroutine, member, chatbot, pc, msg, qn) ==
    [coroutine |-> coroutine, member |-> member, chatbot |-> chatbot,
     pc |-> pc, msg |-> msg, qn |-> qn]

(* the messages the gateway hands to on_message: direct messages, and one *)
(* written in a guild channel                                              *)
Messages ==
    {[content |-> c, private |-> TRUE] : c \in Contents}
        \cup {[content |-> <<"1">>, private |-> FALSE]}

(* start_chatbot as it would be over a list of sessions that it appends   *)
(* to (the registry of the earlier bot, awaiting_chatbots)                 *)
StartChatbot_append(chat_member, chatbot_kind, target_member) ==
    /\ chatbot_kind \in Kinds
    /\ UNCHANGED <<outbox, rows>>
    /\ \E id \in ChatBotIds \ DOMAIN chatbots :
          LET new == NewChatBot(chatbot_kind, chat_member, target_member)
              step == ask_question(new, 0, TRUE, None)
          IN  /\ active_chatbots' = active_chatbots \cup {[key |-> chat_member, val |-> id]}
              /\ tasks' = tasks \cup {Task("start_chatbot", chat_member, id,
                                           step.out, step.msg, step.qn)}
              /\ chatbots' = [i \in DOMAIN chatbots \cup {id} |->
                                 IF i = id THEN new ELSE chatbots[i]]
              /\ result' = [result EXCEPT ![chat_member] = "running"]

(* ChatBotManager.start_chatbot up to the await in ChatBot.start *)
StartChatbot(chat_member, chatbot_kind, target_member) ==
    LET existing == DictGet(active_chatbots, chat_member)
        ends(how) == /\ result' = [result EXCEPT ![chat_member] = how]
                     /\ UNCHANGED <<active_chatbots, chatbots, tasks>>
    IN  /\ UNCHANGED <<outbox, rows>>
        /\ IF existing # None /\ "kind" \notin ChatBotAttributes
           THEN ends("AttributeError")
           ELSE IF chatbot_kind \notin Kinds
           THEN ends("KeyError")
           ELSE \E id \in ChatBotIds :
                  /\ id \notin DOMAIN chatbots
                  /\ \A other \in ChatBotIds \ DOMAIN chatbots : id <= other
                  /\ LET new == NewChatBot(chatbot_kind, chat_member, target_member)
                         registry == DictSet(active_chatbots, chat_member, id)
                         step == ask_question(new, 0, TRUE,
                                     IF existing = None THEN None
                                     ELSE Some(chatbots[existing[1]].script))
                         started == IF step.out = "raise" THEN {}
                                    ELSE {Task("start_chatbot", chat_member, id,
                                               step.out, step.msg, step.qn)}
                     IN  /\ active_chatbots' = registry
                         /\ tasks' = tasks \cup started
                         /\ chatbots' = Collect(
                                [i \in DOMAIN chatbots \cup {id} |->
                                    IF i = id THEN new ELSE chatbots[i]],
                                registry, tasks')
                         /\ result' = [result EXCEPT ![chat_member] =
                                          IF step.out = "raise" THEN step.exc
                                          ELSE "running"]

(* the guard of on_message without its test of the processing flag *)
Busy_unguarded(chatbot) == chatbot = None

(* the guard of on_message: no session for the author, or one whose        *)
(* processing flag is set                                                  *)

Busy(chatbot) == chatbot = None \/ chatbots[chatbot[1]].processing

(* ChatBotManager.on_message up to the await inside receive, or inside the *)
(* except clause when receive raises before awaiting anything              *)
OnMessage(p, message) ==
    /\ UNCHANGED <<active_chatbots, outbox, rows>>
    /\ LET chatbot == DictGet(active_chatbots, p)
       IN  IF ~message.private
           THEN /\ result' = [result EXCEPT ![p] = "returned"]
                /\ UNCHANGED <<chatbots, tasks>>
           ELSE IF Busy(chatbot)
           THEN /\ result' = [result EXCEPT ![p] = "ignored"]
                /\ UNCHANGED <<chatbots, tasks>>
           ELSE LET id == chatbot[1]
                    guarded == [chatbots[id] EXCEPT !.processing = TRUE]
                    step == receive(guarded, message.content)
                IN  /\ chatbots' = [chatbots EXCEPT ![id] = step.chatbot]
                    /\ tasks' = tasks \cup
                         {IF step.out = "raise"
                          THEN Task("on_message", p, id, "notify", CriticalNotice, 0)
                          ELSE Task("on_message", p, id, step.out, step.msg, step.qn)}
                    /\ result' = [result EXCEPT ![p] = "running"]

(* the send a coroutine awaits succeeds: the message is delivered and the  *)
(* coroutine runs to its end                                               *)
SendOk(t) ==
    /\ t \in tasks
    /\ outbox' = [outbox EXCEPT ![t.member] = Some(t.msg)]
    /\ UNCHANGED rows
    /\ LET asked == IF t.pc = "ask_question"
                    THEN [chatbots EXCEPT ![t.chatbot].last_asked_question = t.qn]
                    ELSE chatbots
       IN  IF t.coroutine = "start_chatbot"
           THEN /\ tasks' = tasks \ {t}
                /\ active_chatbots' = active_chatbots
                /\ chatbots' = Collect(asked, active_chatbots', tasks')
                /\ result' = [result EXCEPT ![t.member] = "returned"]
           ELSE /\ tasks' = tasks \ {t}
                /\ active_chatbots' = IF t.pc = "notify"
                                      THEN DictPop(active_chatbots, t.member)
                                      ELSE active_chatbots
                /\ chatbots' = Collect(
                       IF t.pc = "notify" THEN asked
                       ELSE [asked EXCEPT ![t.chatbot].processing = FALSE],
                       active_chatbots', tasks')
                /\ result' = [result EXCEPT ![t.member] = "returned"]

(* the send a coroutine awaits raises (discord.HTTPException, Forbidden) *)
SendFails(t) ==
    /\ t \in tasks
    /\ UNCHANGED <<active_chatbots, outbox, rows>>
    /\ IF t.coroutine = "on_message" /\ t.pc # "notify"
       THEN /\ tasks' = (tasks \ {t}) \cup
                    {Task("on_message", t.member, t.chatbot, "notify", CriticalNotice, 0)}
            /\ UNCHANGED <<chatbots, result>>
       ELSE /\ tasks' = tasks \ {t}
            /\ chatbots' = Collect(chatbots, active_chatbots, tasks')
            /\ result' = [result EXCEPT ![t.member] = "HTTPException"]

(* the kinds a caller may name, one of them not in scripts.yml *)
RequestedKinds == Kinds \cup {"unknown"}

Next ==
    \/ /\ \E p \in Members, kind \in RequestedKinds, target \in {None} :
              StartChatbot(p, kind, target)
       /\ UNCHANGED <<load_vars, db_vars, thread_vars>>
    \/ /\ \E p \in Members, message \in Messages : OnMessage(p, message)
       /\ UNCHANGED <<load_vars, db_vars, thread_vars>>
    \/ /\ \E t \in tasks : SendOk(t)
       /\ UNCHANGED <<load_vars, db_vars, thread_vars>>
    \/ /\ \E t \in tasks : SendFails(t)
       /\ UNCHANGED <<load_vars, db_vars, thread_vars>>

Spec == Init /\ [][Next]_vars

----------------------------------------------------------------------------
(* Vocabulary of the properties: the conversation states of a participant. *)

Items(registry, p) == {e \in registry : e.key = p}
Registered(p) == Items(active_chatbots, p) # {}
SessionId(p) == (CHOOSE e \in active_chatbots : e.key = p).val
Session(p) == chatbots[SessionId(p)]

(* the on_message coroutines suspended on a ChatBot object *)
Handlers(id) == {t \in tasks : t.coroutine = "on_message" /\ t.chatbot = id}
Quiet(p) == \A t \in tasks : t.chatbot # SessionId(p)

Collected(responses) == {n \in DOMAIN responses : responses[n] # None}

(* Asking(i): question i has been put and no reply is being handled *)
Asking(p, i) ==
    /\ Registered(p) /\ Quiet(p)
    /\ ~Session(p).processing /\ ~Session(p).reviewing
    /\ Session(p).last_asked_question = i

(* Reviewing: the review flag is set and no reply is being handled *)
Reviewing(p) == Registered(p) /\ Quiet(p) /\ Session(p).reviewing

CurrentQuestion(p) == get_question(Session(p).script, Session(p).last_asked_question)
IsLast(p) == Session(p).last_asked_question + 1 >= Length(Session(p).script)

Valid(question, content) ==
    question.valid_regex = None \/ FullMatch(question.valid_regex[1], content)

(* the reply that equals a display name up to letter case *)
Folded(display_name) ==
    IF display_name = "Email" THEN <<"email">>
    ELSE IF display_name = "Name" THEN <<"name">>
    ELSE <<"tag code">>

Affirmative(content) == content = <<"yes">>

(* the review message of a session: every display name with its answer *)
ReviewLines(chatbot) ==
    [i \in 1 .. Length(chatbot.script) |->
        Part("answer", loaded_scripts[chatbot.script].questions[i].display_name,
             chatbot.responses[loaded_scripts[chatbot.script].questions[i].name])]

IsReview(msg, chatbot) ==
    /\ Len(msg) = 1 + Length(chatbot.script)
    /\ SubSeq(msg, 2, Len(msg)) = ReviewLines(chatbot)

Direct(content) == [content |-> content, private |-> TRUE]

----------------------------------------------------------------------------
(* C1: in every reachable state the registry holds at most one session for *)
(* each participant.                                                       *)
C1_AtMostOneSession ==
    \A p \in Members : Cardinality(Items(active_chatbots, p)) <= 1

(* a script was started for a participant who had a session *)
C1_Witness ==
    \E p \in Members : Registered(p) /\ result[p] = "AttributeError"

(* C2: starting a script for a participant who has a session leaves        *)
(* exactly one session for them, the new one, at question 0 with no        *)
(* answer, and writes no row.                                              *)
C2_RestartReplaces ==
    [][\A p \in Members, kind \in Kinds :
          (Registered(p) /\ StartChatbot(p, kind, None))
          => /\ Cardinality(Items(active_chatbots', p)) = 1
             /\ \E e \in active_chatbots' :
                   e.key = p /\ chatbots'[e.val] = NewChatBot(kind, p, None)
             /\ rows' = rows]_vars

(* C3: a valid answer in Asking(i) is stored under question i's name, one  *)
(* more answer is held, and the engine goes on to put question i + 1, or   *)
(* to send the review when i is the last question.                         *)
C3_ValidAnswerAdvances ==
    [][\A p \in Members, c \in Contents :
          (/\ Registered(p) /\ Asking(p, Session(p).last_asked_question)
           /\ Valid(CurrentQuestion(p), c)
           /\ OnMessage(p, Direct(c)))
          => LET old == Session(p)
                 new == chatbots'[SessionId(p)]
             IN  /\ new.responses = [old.responses EXCEPT
                        ![CurrentQuestion(p).name] = Some(CleanContent(c))]
                 /\ Cardinality(Collected(new.responses))
                        = Cardinality(Collected(old.responses)) + 1
                 /\ \E t \in tasks' :
                       /\ t.chatbot = SessionId(p)
                       /\ IF IsLast(p)
                          THEN new.reviewing /\ IsReview(t.msg, new)
                          ELSE /\ t.pc = "ask_question"
                               /\ t.qn = old.last_asked_question + 1]_vars

(* C4: an answer that fails the pattern of question i leaves the answers   *)
(* and the index as they are, the session registered, and only the         *)
(* rejection message goes out.                                             *)
C4_RejectionKeepsState ==
    [][\A p \in Members, c \in Contents :
          (/\ Registered(p) /\ Asking(p, Session(p).last_asked_question)
           /\ ~Valid(CurrentQuestion(p), c)
           /\ OnMessage(p, Direct(c)))
          => /\ Registered(p)'
             /\ chatbots'[SessionId(p)].responses = Session(p).responses
             /\ chatbots'[SessionId(p)].last_asked_question
                    = Session(p).last_asked_question
             /\ \A t \in tasks' : t.chatbot = SessionId(p) => t.pc = "reply"]_vars

(* C5: after a valid answer to the last question the session is in         *)
(* Reviewing: flagged, still registered, and the review message is what    *)
(* is sent to the participant.                                             *)
C5_LastAnswerReviews ==
    \A id \in DOMAIN chatbots :
        chatbots[id].reviewing
        => /\ \E e \in active_chatbots : e.val = id
           /\ \A t \in Handlers(id) : IsReview(t.msg, chatbots[id])
           /\ Handlers(id) = {}
                 => /\ outbox[chatbots[id].chat_member] # None
                    /\ IsReview(outbox[chatbots[id].chat_member][1], chatbots[id])

(* C6: yes in Reviewing writes exactly one row, holding every collected    *)
(* answer, to the script's table and removes the session.                  *)
C6_YesCommits ==
    [][\A p \in Members, c \in Contents :
          (/\ Registered(p) /\ Reviewing(p) /\ Affirmative(c)
           /\ OnMessage(p, Direct(c)))
          => /\ rows' = Append(rows,
                    [table |-> loaded_scripts[Session(p).script].table,
                     row |-> Session(p).responses])
             /\ ~Registered(p)']_vars

(* C7: a reply in Reviewing that names question k re-sends the prompt of   *)
(* question k alone, for index k, and changes no answer.                   *)
C7_EditReprompts ==
    [][\A p \in Members, c \in Contents :
          (/\ Registered(p) /\ Reviewing(p)
           /\ \E k \in 0 .. Length(Session(p).script) - 1 :
                 c = Folded(get_question(Session(p).script, k).display_name)
           /\ OnMessage(p, Direct(c)))
          => LET k == CHOOSE k \in 0 .. Length(Session(p).script) - 1 :
                        c = Folded(get_question(Session(p).script, k).display_name)
             IN  /\ chatbots'[SessionId(p)].responses = Session(p).responses
                 /\ \E t \in tasks' :
                       /\ t.chatbot = SessionId(p) /\ t.pc = "ask_question"
                       /\ t.qn = k
                       /\ t.msg = << Text(get_question(Session(p).script, k).query) >>]_vars

(* C8: once review has sent the session back to question k (every answer   *)
(* held, the prompt of question k alone the last thing sent), a valid      *)
(* answer to k changes that answer only and goes straight to the review.   *)
C8_EditReturnsToReview ==
    [][\A p \in Members, c \in Contents :
          (/\ Registered(p) /\ Reviewing(p)
           /\ Collected(Session(p).responses) = DOMAIN Session(p).responses
           /\ outbox[p] = Some(<< Text(CurrentQuestion(p).query) >>)
           /\ Valid(CurrentQuestion(p), c)
           /\ OnMessage(p, Direct(c)))
          => LET new == chatbots'[SessionId(p)]
             IN  /\ Registered(p)'
                 /\ new.responses = [Session(p).responses EXCEPT
                        ![CurrentQuestion(p).name] = Some(CleanContent(c))]
                 /\ new.reviewing
                 /\ \E t \in tasks' : t.chatbot = SessionId(p) /\ IsReview(t.msg, new)]_vars

(* C9: when the handling of a message ends in its error path, the          *)
(* participant has been told to start again, the session is out of the     *)
(* registry, and no row was written.                                       *)
C9_ErrorAbandons ==
    [][\A t \in tasks :
          (t.coroutine = "on_message" /\ t.pc = "notify" /\ t \notin tasks')
          => /\ outbox'[t.member] = Some(CriticalNotice)
             /\ Items(active_chatbots', t.member) = {}
             /\ rows' = rows]_vars

(* C10: at most one on_message handler runs on a session, and a message    *)
(* dispatched while the processing flag is set changes nothing of the      *)
(* sessions, the registry, the handlers or what the participant is sent.   *)
C10_ProcessingGuard ==
    /\ [](\A id \in DOMAIN chatbots : Cardinality(Handlers(id)) <= 1)
    /\ [][\A p \in Members, message \in Messages :
             (/\ Registered(p) /\ Session(p).processing /\ message.private
              /\ OnMessage(p, message))
             => UNCHANGED <<active_chatbots, chatbots, tasks, outbox, rows>>]_vars

(* a message was ignored while a handler was suspended on the session *)
C10_Witness ==
    \E p \in Members :
        /\ Registered(p) /\ Handlers(SessionId(p)) # {}
        /\ Session(p).processing /\ result[p] = "ignored"

----------------------------------------------------------------------------
(* Loading scripts.yml: ChatBotManager.__init__, ChatBotScript and         *)
(* Question.  A YAML scalar is a string, a number or null; a mapping is a  *)
(* function over the keys it holds.                                        *)

Yaml(type, v) == [type |-> type, v |-> v]
Str(v) == Yaml("str", v)
Null == Yaml("null", "")

(* dict.get(key): None for a key that is absent and for a key holding null *)
Get(mapping, key) ==
    IF key \in DOMAIN mapping /\ mapping[key].type # "null"
    THEN Some(mapping[key])
    ELSE None

(* Question.required_attributes and Question.coupled_attributes *)
required_attributes == <<"name", "display_name", "query">>
coupled_attributes == << <<"valid_regex", "rejection_response">> >>

(* the dataclass fields of Question, what hasattr(self, key) finds *)
QuestionAttributes ==
    {"name", "display_name", "query", "valid_regex", "rejection_response"}

(* question_data.get(i) for the integer i of range(0, 1): the keys of a    *)
(* question in scripts.yml are attribute names, so the lookup misses       *)
GetByIndex(question_data, i) == None

(* the coupled-attribute loop of Question.__post_init__ *)
CoupledMissing(question_data) ==
    \E p \in DOMAIN coupled_attributes, i \in 0 .. 0 :
        /\ GetByIndex(question_data, i) # None
        /\ Get(question_data, coupled_attributes[p][IF i = 0 THEN 2 ELSE 1]) = None

(* Question(question_data) without the check of the required attributes *)
LoadQuestion_unchecked(question_data) ==
    IF \/ CoupledMissing(question_data)
       \/ \E key \in DOMAIN question_data : question_data[key].type # "str"
    THEN [exc |-> Some("ValueError"), value |-> None]
    ELSE [exc |-> None,
          value |-> Some([a \in QuestionAttributes |->
                            IF a \in DOMAIN question_data
                            THEN Some(question_data[a].v) ELSE None])]

(* Question(question_data): __post_init__ raises ValueError for a missing  *)
(* required attribute, a missing coupled attribute, or a content that is   *)
(* not a string; else the attributes are set from the data, None where the *)
(* data has no such key                                                    *)
LoadQuestion(question_data) ==
    IF \/ \E a \in DOMAIN required_attributes :
              Get(question_data, required_attributes[a]) = None
       \/ CoupledMissing(question_data)
       \/ \E key \in DOMAIN question_data : question_data[key].type # "str"
    THEN [exc |-> Some("ValueError"), value |-> None]
    ELSE [exc |-> None,
          value |-> Some([a \in QuestionAttributes |->
                            IF a \in DOMAIN question_data
                            THEN Some(question_data[a].v) ELSE None])]

(* ChatBotScript(kind, script): every question is built in order, and the  *)
(* first ValueError is raised again                                        *)
ChatBotScript(kind, script) ==
    IF \E i \in DOMAIN script.questions : LoadQuestion(script.questions[i]).exc # None
    THEN [exc |-> Some("ValueError"), value |-> None]
    ELSE [exc |-> None,
          value |-> Some([beginning |-> script.beginning, ending |-> script.ending,
                          table |-> script.table,
                          _questions |-> [i \in DOMAIN script.questions |->
                                 LoadQuestion(script.questions[i]).value[1]]])]

(* the loop of ChatBotManager.__init__ from item i on, then its log line   *)
(* that reads loaded_scripts['registration'].questions                     *)
RECURSIVE LoadFrom(_, _, _)
LoadFrom(items, i, registered) ==
    IF i > Len(items)
    THEN [catalog |-> registered,
          exc |-> IF DictGet(registered, "registration") = None THEN Some("KeyError")
                  ELSE IF "questions" \notin ChatBotScriptAttributes
                       THEN Some("AttributeError")
                       ELSE None]
    ELSE LET made == ChatBotScript(items[i].kind, items[i].script)
         IN  IF made.exc # None
             THEN [catalog |-> registered, exc |-> made.exc]
             ELSE LoadFrom(items, i + 1, DictSet(registered, items[i].kind, made.value[1]))

(* the questions scripts.yml may hold: a complete one, one with a pattern  *)
(* and its rejection message, one with a pattern alone, and a complete one *)
(* with a required attribute left out, null, empty or a number             *)
Without(mapping, key) == [k \in (DOMAIN mapping) \ {key} |-> mapping[k]]
With(mapping, key, v) == [k \in (DOMAIN mapping) \cup {key} |-> IF k = key THEN v ELSE mapping[k]]

FullQuestion == [a \in {"name", "display_name", "query"} |-> Str(a)]

QuestionData ==
    {FullQuestion,
     With(With(FullQuestion, "valid_regex", Str("[0-9]+")), "rejection_response", Str("no")),
     With(FullQuestion, "valid_regex", Str("[0-9]+")),
     With(FullQuestion, "name", Null),
     With(FullQuestion, "name", Str("")),
     With(FullQuestion, "query", Yaml("int", "1"))}
      \cup {Without(FullQuestion, required_attributes[a]) : a \in DOMAIN required_attributes}

MaxQuestions == 2
SeqsUpTo(S, n) == UNION {[1 .. k -> S] : k \in 1 .. n}

ScriptData(kind, questions) ==
    [kind |-> kind,
     script |-> [beginning |-> "hello", ending |-> "bye", table |-> kind,
                 questions |-> questions]]

(* the second script of the file is of complete questions and questions    *)
(* without a name                                                          *)
ScriptsData ==
    {<<ScriptData("registration", q1), ScriptData("tag_logging", q2)>> :
        q1 \in SeqsUpTo(QuestionData, MaxQuestions),
        q2 \in SeqsUpTo({FullQuestion, Without(FullQuestion, "name")}, MaxQuestions)}

LoadInit ==
    /\ scripts_data \in ScriptsData
    /\ catalog = {}
    /\ loader = "start"
    /\ ChatOff /\ DbOff /\ ThreadOff

(* ChatBotManager.__init__(bot) *)
LoadScripts ==
    /\ loader = "start"
    /\ LET done == LoadFrom(scripts_data, 1, catalog)
       IN  /\ catalog' = done.catalog
           /\ loader' = IF done.exc = None THEN "loaded" ELSE done.exc[1]
    /\ UNCHANGED <<scripts_data, chat_vars, db_vars, thread_vars>>

LoadNext == LoadScripts

LoadSpec == LoadInit /\ [][LoadNext]_vars

(* the scripts of scripts.yml with a question that lacks a required attribute *)
LacksRequired(question_data) ==
    \E a \in DOMAIN required_attributes :
        \/ required_attributes[a] \notin DOMAIN question_data
        \/ question_data[required_attributes[a]].type = "null"

Malformed(item) ==
    \E i \in DOMAIN item.script.questions : LacksRequired(item.script.questions[i])

----------------------------------------------------------------------------
(* The persistence layer: HvzDb of src/discord_hvz/database.py over its    *)
(* SQLite file.  A dict is a function over its keys; an ordered dict (the  *)
(* configuration) is a sequence of its items.                              *)

(* str.casefold over the names that are not lower-case already *)
Casefold(s) ==
    CASE s = "Members" -> "members"
      [] s = "Faction" -> "faction"
      [] s = "Oz" -> "oz"
      [] OTHER -> s

(* a column type as a caller gives it: a member of ValidColumnType or a    *)
(* string.  INCR_INTEGER has the value of INTEGER, so the Enum makes it an *)
(* alias: the two names are one member                                     *)
EnumType(member) == [enum |-> TRUE, v |-> member]

(* a str given as a column type: its text casefolded and stripped (v),     *)
(* whether it is written with upper-case letters, and the white space to   *)
(* its left and right                                                      *)
Spelled(name, upper, left, right) ==
    [enum |-> FALSE, v |-> name, upper |-> upper, left |-> left, right |-> right]
NamedType(name) == Spelled(name, FALSE, 0, 0)

(* str.strip and str.casefold *)
strip(x) == [x EXCEPT !.left = 0, !.right = 0]
casefold(x) == [x EXCEPT !.upper = FALSE]
INTEGER == EnumType("INTEGER")
INCR_INTEGER == INTEGER
BOOLEAN_ == EnumType("BOOLEAN")
STRING_ == EnumType("STRING")
DATETIME == EnumType("DATETIME")

STR_TO_COLUMN ==
    [s \in {"string", "str", "integer", "int", "incrementing_integer",
            "incr_integer", "boolean", "bool", "datetime", "date"} |->
        CASE s \in {"string", "str"} -> STRING_
          [] s \in {"integer", "int"} -> INTEGER
          [] s \in {"incrementing_integer", "incr_integer"} -> INCR_INTEGER
          [] s \in {"boolean", "bool"} -> BOOLEAN_
          [] OTHER -> DATETIME]

(* to_column_type(x): None stands for its TypeError *)
to_column_type(x) ==
    IF x.enum THEN Some(x)
    ELSE LET key == casefold(strip(x))
         IN  IF \E s \in DOMAIN STR_TO_COLUMN : NamedType(s) = key
             THEN Some(STR_TO_COLUMN[key.v])
             ELSE None

(* HvzDb._create_column_object: the name is casefolded, and the column is  *)
(* the autoincrement primary key when column_type == INCR_INTEGER          *)
_create_column_object(column_name, column_type) ==
    [name |-> Casefold(column_name),
     type |-> to_column_type(column_type)[1].v,
     primary_key |-> column_type = INCR_INTEGER]

(* a Table object and a physical table *)
Table(name, columns) == [name |-> name, columns |-> columns]
Physical(columns, inserted) == [columns |-> columns, rows |-> inserted]

ColumnNames(columns) == {columns[i].name : i \in DOMAIN columns}

(* dict[key] = value *)
Put(dict, key, value) ==
    [k \in (DOMAIN dict) \cup {key} |-> IF k = key THEN value ELSE dict[k]]

(* SQLite resolves a table name whatever its letter case *)
Exists(file, table_name) == Casefold(table_name) \in DOMAIN file

(* Table(table_name, metadata, autoload_with=engine) of a table that exists *)
Autoload(file, table_name) == Table(table_name, file[Casefold(table_name)].columns)

(* HvzDb._add_configured_table and the creating branch of prepare_table *)
_add_configured_table(table_name, configured_columns) ==
    Table(Casefold(table_name),
          [i \in DOMAIN configured_columns |->
              _create_column_object(configured_columns[i].name, configured_columns[i].type)])

(* MetaData.create_all: every Table object without a physical table gets one *)
RECURSIVE create_all(_, _)
create_all(file, registry) ==
    IF \A k \in DOMAIN registry : Exists(file, registry[k].name) THEN file
    ELSE LET k == CHOOSE k \in DOMAIN registry : ~Exists(file, registry[k].name)
         IN  create_all(Put(file, Casefold(registry[k].name),
                            Physical(registry[k].columns, <<>>)), registry)

(* HvzDb._validate_column_selection for one name: table.c[column], where   *)
(* the key is the column name as it is stored                              *)
HasColumn(table, column) == column \in ColumnNames(table.columns)

(* the loop as it would be if every missing table were created at once *)
RECURSIVE Reconcile_eager(_, _, _, _)
Reconcile_eager(config, i, file, registry) ==
    IF i > Len(config)
    THEN [exc |-> "", tables |-> registry, disk |-> file]
    ELSE LET table_name == config[i].name
             configured_columns == config[i].columns
             added == Put(registry, table_name,
                          _add_configured_table(table_name, configured_columns))
         IN  IF ~Exists(file, table_name)
             THEN Reconcile_eager(config, i + 1, create_all(file, added), added)
             ELSE LET table == Autoload(file, table_name)
                  IN  IF \E c \in DOMAIN configured_columns :
                             ~HasColumn(table, configured_columns[c].name)
                      THEN [exc |-> "ConfigError", tables |-> <<>>, disk |-> file]
                      ELSE Reconcile_eager(config, i + 1, file,
                                           Put(registry, table_name, table))

(* the loop of HvzDb.__post_init__ from item i on, then create_all *)
RECURSIVE Reconcile(_, _, _, _)
Reconcile(config, i, file, registry) ==
    IF i > Len(config)
    THEN [exc |-> "", tables |-> registry, disk |-> create_all(file, registry)]
    ELSE LET table_name == config[i].name
             configured_columns == config[i].columns
         IN  IF ~Exists(file, table_name)
             THEN Reconcile(config, i + 1, file,
                      Put(registry, table_name,
                          _add_configured_table(table_name, configured_columns)))
             ELSE LET table == Autoload(file, table_name)
                  IN  IF \E c \in DOMAIN configured_columns :
                             ~HasColumn(table, configured_columns[c].name)
                      THEN [exc |-> "ConfigError", tables |-> <<>>, disk |-> file]
                      ELSE Reconcile(config, i + 1, file, Put(registry, table_name, table))

(* HvzDb.prepare_table *)
prepare_table(file, registry, table_name, columns) ==
    LET table == IF Exists(file, table_name) THEN Autoload(file, table_name)
                 ELSE _add_configured_table(table_name, columns)
        new == Put(registry, table_name, table)
    IN  [exc |-> "", tables |-> new, disk |-> create_all(file, new)]

----------------------------------------------------------------------------
(* Values and rows.  A value is an int, a bool, a string or NULL (Python's *)
(* None); a row maps every column of its table to a value.                 *)
Value(t, n, s) == [t |-> t, n |-> n, s |-> s]
Integer(n) == Value("int", n, "")
Boolean(b) == Value("bool", IF b THEN 1 ELSE 0, "")
String(s) == Value("str", 0, s)
NULL == Value("null", 0, "")

(* Python's truth value of an argument: None, 0, False and '' are false *)
Truthy(x) == x.t # "null" /\ (IF x.t = "str" THEN x.s # "" ELSE x.n # 0)

(* SQL column == value: NULL equals nothing, a bool is stored as 0 or 1 *)
SqlEq(cell, value) ==
    /\ cell.t # "null" /\ value.t # "null"
    /\ (cell.t = "str") = (value.t = "str")
    /\ cell.n = value.n /\ cell.s = value.s

(* the primary-key columns of a table, and the column SQLite uses as the   *)
(* rowid (an INTEGER column that is the whole primary key)                 *)
PrimaryKey(columns) == {columns[i].name : i \in {j \in DOMAIN columns : columns[j].primary_key}}
HasRowidAlias(columns) == Cardinality(PrimaryKey(columns)) = 1
RowidAlias(columns) == CHOOSE c \in PrimaryKey(columns) : TRUE

(* a SELECT without ORDER BY scans the table in rowid order: by the        *)
(* primary key where an INTEGER column is one, else in insertion order     *)
ByRowid(p, r1, r2) == r1[p].n < r2[p].n
Scan(physical) ==
    IF HasRowidAlias(physical.columns)
    THEN LET p == RowidAlias(physical.columns)
         IN  SortSeq(physical.rows, LAMBDA r1, r2 : ByRowid(p, r1, r2))
    ELSE physical.rows

Matching(physical, column, value) ==
    SelectSeq(Scan(physical), LAMBDA r : SqlEq(r[column], value))

(* the next rowid SQLite generates: one more than the largest in the table *)
Max(S) == CHOOSE n \in S : \A m \in S : m <= n
NextRowid(physical, p) ==
    IF physical.rows = <<>> THEN 1
    ELSE 1 + Max({physical.rows[i][p].n : i \in DOMAIN physical.rows})

Unique(inserted, p) ==
    \A i, j \in DOMAIN inserted : inserted[i][p].n = inserted[j][p].n => i = j

(* INSERT INTO table VALUES row: an unknown column name is a CompileError, *)
(* a missing primary key is generated, a duplicate one an IntegrityError   *)
SqlInsert(physical, row) ==
    LET columns == physical.columns
        full == [c \in ColumnNames(columns) |-> IF c \in DOMAIN row THEN row[c] ELSE NULL]
        keyed == IF HasRowidAlias(columns) /\ full[RowidAlias(columns)].t = "null"
                 THEN [full EXCEPT ![RowidAlias(columns)] =
                                       Integer(NextRowid(physical, RowidAlias(columns)))]
                 ELSE full
        inserted == Append(physical.rows, keyed)
    IN  IF ~(DOMAIN row \subseteq ColumnNames(columns))
        THEN [exc |-> "CompileError", rows |-> physical.rows, rowcount |-> 0]
        ELSE IF HasRowidAlias(columns) /\ ~Unique(inserted, RowidAlias(columns))
        THEN [exc |-> "IntegrityError", rows |-> physical.rows, rowcount |-> 0]
        ELSE [exc |-> "", rows |-> inserted, rowcount |-> 1]

(* UPDATE table SET target = value WHERE column == search *)
SqlUpdate(physical, column, search, target, value) ==
    LET columns == physical.columns
        hit == {i \in DOMAIN physical.rows : SqlEq(physical.rows[i][column], search)}
        updated == [i \in DOMAIN physical.rows |->
                       IF i \in hit THEN [physical.rows[i] EXCEPT ![target] = value]
                       ELSE physical.rows[i]]
    IN  IF /\ hit # {} /\ HasRowidAlias(columns) /\ target = RowidAlias(columns)
           /\ (value.t = "null" \/ ~Unique(updated, target))
        THEN [exc |-> "IntegrityError", rows |-> physical.rows, rowcount |-> 0]
        ELSE [exc |-> "", rows |-> updated, rowcount |-> Cardinality(hit)]

(* DELETE FROM table WHERE column == search *)
SqlDelete(physical, column, search) ==
    LET kept == SelectSeq(physical.rows, LAMBDA r : ~SqlEq(r[column], search))
    IN  [exc |-> "", rows |-> kept, rowcount |-> Len(physical.rows) - Len(kept)]

(* the physical table a Table object names, and the file after a write *)
Of(file, table) == file[Casefold(table.name)]
Written(file, table, new_rows) ==
    [file EXCEPT ![Casefold(table.name)].rows = new_rows]

----------------------------------------------------------------------------
(* The methods of HvzDb.  Each gives the exception it raises ("" for       *)
(* none), what it returns, the file afterwards, the tables it has passed   *)
(* to sheet_interface.update_table and the file as another connection      *)
(* reads it while that call runs (visible): what has been committed.       *)
Outcome(exc, ret, returned, file, notified) ==
    [exc |-> exc, ret |-> ret, returned |-> returned, disk |-> file,
     hooks |-> notified, visible |-> file, where |-> {}, executed |-> FALSE]

Raise(exc, file) == Outcome(exc, "", <<>>, file, <<>>)

ConfigNames(config) == {config[i].name : i \in DOMAIN config}

(* _table_updated without its test against database_config *)
_table_updated_always(config, table_name) == <<table_name>>

(* HvzDb._table_updated(table): table_name is the name of a Table object   *)
(* or the string itself; only a key of database_config goes to the sheet   *)
_table_updated(config, table_name) ==
    IF table_name \in ConfigNames(config) THEN <<table_name>> ELSE <<>>

(* HvzDb._validate_table_selection: self.tables[table], KeyError if absent *)
IsTable(registry, table) == table \in DOMAIN registry

(* the row of add_row after "Convert all column names to lowercase" *)
Lowered(input_row) ==
    [k \in {Casefold(x) : x \in DOMAIN input_row} |->
        input_row[CHOOSE x \in DOMAIN input_row : Casefold(x) = k]]

(* HvzDb.add_row: _table_updated is called inside the with block of the    *)
(* transaction, before its commit                                          *)
add_row(file, registry, config, table_selection, input_row) ==
    IF ~IsTable(registry, Casefold(table_selection)) THEN Raise("KeyError", file)
    ELSE LET table == registry[Casefold(table_selection)]
             done == SqlInsert(Of(file, table), Lowered(input_row))
         IN  IF done.exc # "" THEN Raise(done.exc, file)
             ELSE [Outcome("", "CursorResult", <<>>, Written(file, table, done.rows),
                           _table_updated(config, table.name))
                      EXCEPT !.executed = TRUE, !.visible = file]

(* HvzDb.__get_row: the first row of the selection, or ValueError *)
__get_row(file, table, search_column, search_value, exclusion_column, exclusion_value) ==
    IF exclusion_column # None /\ exclusion_value = None
    THEN Raise("ValueError: no exclusion value", file)
    ELSE LET found == SelectSeq(Matching(Of(file, table), search_column, search_value),
                          LAMBDA r : exclusion_column = None
                                     \/ (/\ r[exclusion_column[1]].t # "null"
                                         /\ ~SqlEq(r[exclusion_column[1]], exclusion_value[1])))
         IN  IF found = <<>>
             THEN [Raise("ValueError: not found", file) EXCEPT !.executed = TRUE]
             ELSE [Outcome("", "Row", <<found[1]>>, file, <<>>) EXCEPT !.executed = TRUE]

(* HvzDb.get_member(value, column) *)
get_member(file, registry, value, column) ==
    LET search_column == IF column # None THEN Casefold(column[1]) ELSE "id"
    IN  IF ~IsTable(registry, "members") THEN Raise("KeyError", file)
        ELSE IF ~HasColumn(registry["members"], search_column) THEN Raise("KeyError", file)
        ELSE __get_row(file, registry["members"], search_column, value, None, None)

(* HvzDb.get_tag(value, column, filter_revoked) *)
get_tag(file, registry, value, column, filter_revoked) ==
    LET search_column == IF column # None THEN column[1] ELSE "tag_id"
    IN  IF ~IsTable(registry, "tags") THEN Raise("KeyError", file)
        ELSE IF ~HasColumn(registry["tags"], search_column) THEN Raise("KeyError", file)
        ELSE IF ~filter_revoked
        THEN __get_row(file, registry["tags"], search_column, value, None, None)
        ELSE IF ~HasColumn(registry["tags"], "revoked_tag") THEN Raise("KeyError", file)
        ELSE __get_row(file, registry["tags"], search_column, value,
                       Some("revoked_tag"), Some(Boolean(TRUE)))

(* HvzDb.get_table *)
get_table(file, registry, table) ==
    IF ~IsTable(registry, table) THEN Raise("KeyError", file)
    ELSE [Outcome("", "Rows", Scan(Of(file, registry[table])), file, <<>>)
             EXCEPT !.executed = TRUE]

(* HvzDb.edit_row *)
edit_row(file, registry, config, table, search_column, search_value, target_column, target_value) ==
    IF ~IsTable(registry, table) THEN Raise("KeyError", file)
    ELSE LET _table == registry[table]
         IN  IF ~HasColumn(_table, search_column) \/ ~HasColumn(_table, target_column)
             THEN Raise("ValueError: not a column", file)
             ELSE LET done == SqlUpdate(Of(file, _table), search_column, search_value,
                                        target_column, target_value)
                  IN  IF done.exc # "" THEN Raise(done.exc, file)
                      ELSE IF done.rowcount > 0
                      THEN [Outcome("", "True", <<>>, Written(file, _table, done.rows),
                                    _table_updated(config, _table.name))
                               EXCEPT !.executed = TRUE]
                      ELSE [Raise("ValueError: not found", file) EXCEPT !.executed = TRUE]

(* delete_row without its test of the row count *)
delete_row_unchecked(file, registry, config, table, search_column, search_value) ==
    IF ~IsTable(registry, table) THEN Raise("KeyError", file)
    ELSE LET _table == registry[table]
         IN  IF ~HasColumn(_table, search_column)
             THEN Raise("ValueError: not a column", file)
             ELSE LET done == SqlDelete(Of(file, _table), search_column, search_value)
                  IN  [Outcome("", "True", <<>>, Written(file, _table, done.rows),
                               _table_updated(config, table))
                          EXCEPT !.executed = TRUE]

(* HvzDb.delete_row *)
delete_row(file, registry, config, table, search_column, search_value) ==
    IF ~IsTable(registry, table) THEN Raise("KeyError", file)
    ELSE LET _table == registry[table]
         IN  IF ~HasColumn(_table, search_column)
             THEN Raise("ValueError: not a column", file)
             ELSE LET done == SqlDelete(Of(file, _table), search_column, search_value)
                  IN  IF done.rowcount < 1
                      THEN [Raise("ValueError: not found", file) EXCEPT !.executed = TRUE]
                      ELSE [Outcome("", "True", <<>>, Written(file, _table, done.rows),
                                    _table_updated(config, table))
                               EXCEPT !.executed = TRUE]

(* the WHERE clauses get_rows adds for its arguments as an elif chain      *)
(* would not: both tests made on their own                                 *)
Clauses_both(search_value, lower_value, upper_value) ==
    (IF Truthy(search_value) THEN {"equal"} ELSE {})
        \cup (IF Truthy(lower_value) /\ Truthy(upper_value) THEN {"range"} ELSE {})

(* the WHERE clauses get_rows adds for its arguments (if / elif / else):   *)
(* the empty set stands for its ValueError                                 *)
Clauses(search_value, lower_value, upper_value) ==
    IF Truthy(search_value) THEN {"equal"}
    ELSE IF Truthy(lower_value) /\ Truthy(upper_value) THEN {"range"}
    ELSE {}

(* HvzDb.get_rows; an argument left out is None, which is NULL here *)
get_rows(file, registry, table, search_column_name, search_value, lower_value, upper_value, exclusion_column_name, exclusion_value) ==
    IF ~IsTable(registry, table) THEN Raise("KeyError", file)
    ELSE IF ~HasColumn(registry[table], search_column_name)
    THEN Raise("ValueError: not a column", file)
    ELSE LET where == Clauses(search_value, lower_value, upper_value)
             excluding == exclusion_column_name # None
         IN  IF where = {} THEN Raise("ValueError: usage", file)
             ELSE IF excluding /\ ~HasColumn(registry[table], exclusion_column_name[1])
             THEN Raise("ValueError: not a column", file)
             ELSE IF excluding /\ ~Truthy(exclusion_value)
             THEN [Raise("ValueError: no exclusion value", file) EXCEPT !.where = where]
             ELSE LET result_rows ==
                          SelectSeq(Scan(Of(file, registry[table])),
                              LAMBDA r :
                                 /\ "equal" \in where => SqlEq(r[search_column_name], search_value)
                                 /\ "range" \in where =>
                                       /\ r[search_column_name].t # "null"
                                       /\ r[search_column_name].n > lower_value.n
                                       /\ r[search_column_name].n < upper_value.n
                                 /\ excluding =>
                                       /\ r[exclusion_column_name[1]].t # "null"
                                       /\ ~SqlEq(r[exclusion_column_name[1]], exclusion_value))
                  IN  IF Len(result_rows) = 0
                      THEN [Raise("ValueError: not found", file)
                               EXCEPT !.where = where, !.executed = TRUE]
                      ELSE [Outcome("", "Rows", result_rows, file, <<>>)
                               EXCEPT !.where = where, !.executed = TRUE]

----------------------------------------------------------------------------
(* The database as a state machine: construction (HvzDb.__post_init__),    *)
(* the table the ThreadManager prepares, and the calls made on the object. *)

Configured(name, type) == [name |-> name, type |-> type]

MemberColumns ==
    << Configured("id", INTEGER), Configured("faction", STRING_),
       Configured("oz", BOOLEAN_) >>

(* the columns ThreadManager.__init__ passes to prepare_table *)
ThreadColumns ==
    << Configured("thread_id", NamedType("integer")),
       Configured("member_id", NamedType("integer")),
       Configured("chatbot_type", NamedType("string")) >>

(* database_config: the table of members under a lower-case or a           *)
(* capitalised name, with a column name capitalised, alone or after a      *)
(* table of tags                                                           *)
DbConfigs ==
    { << [name |-> "members", columns |-> MemberColumns] >>,
      << [name |-> "Members", columns |-> MemberColumns] >>,
      << [name |-> "members",
          columns |-> [MemberColumns EXCEPT ![2] = Configured("Faction", STRING_)]] >>,
      << [name |-> "tags", columns |-> << Configured("tag_id", INTEGER) >>],
         [name |-> "members", columns |-> MemberColumns] >> }

(* the file at startup: new, or left by an earlier run whose members table *)
(* had all of today's columns or lacked the last one                       *)
DiskStates ==
    { <<>>,
      Put(<<>>, "members",
          Physical(_add_configured_table("members", MemberColumns).columns, <<>>)),
      Put(<<>>, "members",
          Physical(_add_configured_table("members", SubSeq(MemberColumns, 1, 2)).columns,
                   <<>>)) }

(* the last call: its arguments and how it ended *)
Call(op, table) ==
    [op |-> op, table |-> table, column |-> "", value |-> NULL, lower |-> NULL,
     upper |-> NULL, target_column |-> "", target_value |-> NULL, row |-> <<>>,
     exc |-> "", ret |-> "", returned |-> <<>>, where |-> {}, executed |-> FALSE]

(* the configurations and files a run starts from: the members table alone *)
(* over any file, with a capitalised column name over a file that holds    *)
(* the table, and after a table of tags over a file whose members table    *)
(* lacks a column                                                          *)
DbStarts ==
    {s \in DbConfigs \X DiskStates :
        \/ Len(s[1]) = 1 /\ ColumnNames(s[1][1].columns) = ColumnNames(MemberColumns)
        \/ Len(s[1]) = 1 /\ s[2] # <<>>
        \/ s[2] # <<>> /\ Len(s[2]["members"].columns) < Len(MemberColumns)}

DbInit ==
    /\ \E s \in DbStarts : database_config = s[1] /\ disk = s[2]
    /\ tables = <<>>
    /\ call = Call("start", "")
    /\ hooks = <<>>
    /\ ChatOff /\ LoadOff /\ ThreadOff

Constructed == DOMAIN tables # {}

(* the rows update_table reads from a table over a connection of its own  *)
Seen(visible, table_name) ==
    IF Casefold(table_name) \in DOMAIN visible THEN visible[Casefold(table_name)].rows
    ELSE <<>>

(* how a call would end if _table_updated let the sheet's exception out   *)
(* of the transaction                                                      *)
Finish_propagating(made, out, sheet) ==
    LET failed == out.hooks # <<>> /\ sheet = "raises"
    IN  /\ call' = [made EXCEPT !.exc = IF failed THEN "Exception" ELSE out.exc,
                                !.ret = IF failed THEN "" ELSE out.ret,
                                !.returned = out.returned,
                                !.where = out.where, !.executed = out.executed]
        /\ disk' = IF failed THEN disk ELSE out.disk
        /\ hooks' = [i \in DOMAIN out.hooks |->
                        [table |-> out.hooks[i], raised |-> sheet = "raises",
                         seen |-> Seen(out.visible, out.hooks[i])]]

(* how a call ends: its outcome is recorded, the file is as the call left  *)
(* it, and every update_table call it made returned or raised              *)
Finish(made, out, sheet) ==
    /\ call' = [made EXCEPT !.exc = out.exc, !.ret = out.ret, !.returned = out.returned,
                            !.where = out.where, !.executed = out.executed]
    /\ disk' = out.disk
    /\ hooks' = [i \in DOMAIN out.hooks |->
                    [table |-> out.hooks[i], raised |-> sheet = "raises",
                     seen |-> Seen(out.visible, out.hooks[i])]]

(* HvzDb(database_config): __post_init__ *)
Construct ==
    /\ call.op = "start"
    /\ LET out == Reconcile(database_config, 1, disk, <<>>)
       IN  /\ tables' = out.tables
           /\ disk' = out.disk
           /\ call' = [Call("__post_init__", "") EXCEPT !.exc = out.exc]
           /\ hooks' = <<>>
    /\ UNCHANGED <<database_config, chat_vars, load_vars, thread_vars>>

(* ThreadManager.__init__: bot.db.prepare_table('threads', ...) *)
PrepareTable ==
    /\ Constructed
    /\ "threads" \notin DOMAIN tables
    /\ LET out == prepare_table(disk, tables, "threads", ThreadColumns)
       IN  /\ tables' = out.tables
           /\ disk' = out.disk
           /\ call' = Call("prepare_table", "threads")
           /\ hooks' = <<>>
    /\ UNCHANGED <<database_config, chat_vars, load_vars, thread_vars>>

(* the arguments callers pass *)
MaxRows == 2
MaxId == 1
Factions == {"", "human"}
Sheet == {"ok", "raises"}

(* rows for the members table: with an id of their own, or (the keys then  *)
(* capitalised) leaving the id to the database, or with a key that is no   *)
(* column                                                                  *)
MemberRows ==
    {[id |-> Integer(i), faction |-> String(f), oz |-> Boolean(FALSE)] :
        i \in 0 .. MaxId, f \in Factions}
      \cup {[Faction |-> String("human"), Oz |-> Boolean(FALSE)],
            [nickname |-> String("x")]}

ThreadRow ==
    [thread_id |-> Integer(1), member_id |-> Integer(1),
     chatbot_type |-> String("registration")]

(* add_row(table_selection, input_row) *)
AddRowCalls ==
    {<<"members", row>> : row \in MemberRows}
      \cup {<<"Members", [id |-> Integer(1), faction |-> String("human"),
                          oz |-> Boolean(FALSE)]>>,
            <<"unknown", [id |-> Integer(1)]>>,
            <<"threads", ThreadRow>>,
            <<"threads", [nickname |-> String("x")]>>}

(* get_member(value, column) *)
GetMemberCalls ==
    {<<None, Integer(i)>> : i \in 0 .. MaxId}
      \cup {<<Some("faction"), String(f)>> : f \in Factions}

(* get_rows(table, search_column_name, search_value, lower_value, upper_value) *)
GetRowsCalls ==
    {<<"members", "id", Integer(i), NULL, NULL>> : i \in 0 .. MaxId}
      \cup {<<"members", "faction", String(f), NULL, NULL>> : f \in Factions}
      \cup {<<"members", "oz", Boolean(b), NULL, NULL>> : b \in BOOLEAN}
      \cup {<<"members", "id", NULL, NULL, NULL>>,
            <<"members", "id", NULL, Integer(-1), Integer(1)>>,
            <<"members", "id", NULL, Integer(0), Integer(2)>>,
            <<"members", "id", Integer(1), Integer(-1), Integer(1)>>,
            <<"members", "id", NULL, Integer(1), NULL>>,
            <<"threads", "thread_id", Integer(1), NULL, NULL>>}

(* edit_row and delete_row: the table, the column and the value searched *)
Searches ==
    {<<"members", "id", Integer(i)>> : i \in 0 .. MaxId}
      \cup {<<"members", "faction", String("human")>>,
            <<"Members", "id", Integer(1)>>,
            <<"threads", "thread_id", Integer(1)>>}

Targets(table) ==
    IF table = "threads" THEN {<<"chatbot_type", String("registration")>>}
    ELSE {<<"id", Integer(1)>>, <<"faction", String("")>>}

(* the table is known and full: no further row is added to it *)
Full(table_selection) ==
    /\ IsTable(tables, Casefold(table_selection))
    /\ Len(Of(disk, tables[Casefold(table_selection)]).rows) >= MaxRows

AddRow(table_selection, input_row, sheet) ==
    /\ Constructed
    /\ ~Full(table_selection)
    /\ Finish([Call("add_row", table_selection) EXCEPT !.row = input_row],
              add_row(disk, tables, database_config, table_selection, input_row), sheet)
    /\ UNCHANGED <<database_config, tables, chat_vars, load_vars, thread_vars>>

GetMember(column, value) ==
    /\ Constructed
    /\ Finish([Call("get_member", "members") EXCEPT
                  !.column = IF column = None THEN "id" ELSE column[1], !.value = value],
              get_member(disk, tables, value, column), "ok")
    /\ UNCHANGED <<database_config, tables, chat_vars, load_vars, thread_vars>>

GetRows(table, search_column_name, search_value, lower_value, upper_value) ==
    /\ Constructed
    /\ Finish([Call("get_rows", table) EXCEPT
                  !.column = search_column_name, !.value = search_value,
                  !.lower = lower_value, !.upper = upper_value],
              get_rows(disk, tables, table, search_column_name, search_value,
                       lower_value, upper_value, None, NULL), "ok")
    /\ UNCHANGED <<database_config, tables, chat_vars, load_vars, thread_vars>>

EditRow(table, search_column, search_value, target_column, target_value, sheet) ==
    /\ Constructed
    /\ Finish([Call("edit_row", table) EXCEPT
                  !.column = search_column, !.value = search_value,
                  !.target_column = target_column, !.target_value = target_value],
              edit_row(disk, tables, database_config, table, search_column,
                       search_value, target_column, target_value), sheet)
    /\ UNCHANGED <<database_config, tables, chat_vars, load_vars, thread_vars>>

DeleteRow(table, search_column, search_value, sheet) ==
    /\ Constructed
    /\ Finish([Call("delete_row", table) EXCEPT
                  !.column = search_column, !.value = search_value],
              delete_row(disk, tables, database_config, table, search_column,
                         search_value), sheet)
    /\ UNCHANGED <<database_config, tables, chat_vars, load_vars, thread_vars>>

DbNext ==
    \/ Construct
    \/ PrepareTable
    \/ \E c \in AddRowCalls, sheet \in Sheet : AddRow(c[1], c[2], sheet)
    \/ \E c \in GetMemberCalls : GetMember(c[1], c[2])
    \/ \E c \in GetRowsCalls : GetRows(c[1], c[2], c[3], c[4], c[5])
    \/ \E s \in Searches, sheet \in Sheet :
          \E g \in Targets(s[1]) : EditRow(s[1], s[2], s[3], g[1], g[2], sheet)
    \/ \E s \in Searches, sheet \in Sheet : DeleteRow(s[1], s[2], s[3], sheet)

DbSpec == DbInit /\ [][DbNext]_vars

----------------------------------------------------------------------------
(* Vocabulary of the properties of the persistence layer.                  *)

(* the table a caller's name selects, whatever its letter case *)
Known(selection) == \E k \in DOMAIN tables : Casefold(k) = Casefold(selection)
Selected(selection) ==
    tables[CHOOSE k \in DOMAIN tables : Casefold(k) = Casefold(selection)]

(* the rows of that table in the order they were inserted *)
Inserted(file, selection) == Of(file, Selected(selection)).rows

(* those of them whose column equals the value *)
Equal(file, selection, column, value) ==
    SelectSeq(Inserted(file, selection), LAMBDA r : SqlEq(r[column], value))

(* the name under which the table is registered for mirroring, if it is *)
Mirrored(selection) ==
    \E n \in ConfigNames(database_config) : Casefold(n) = Casefold(selection)
MirrorName(selection) ==
    CHOOSE n \in ConfigNames(database_config) : Casefold(n) = Casefold(selection)

Writes == {"add_row", "edit_row", "delete_row"}

SameRows(s1, s2) ==
    /\ Len(s1) = Len(s2)
    /\ {s1[i] : i \in DOMAIN s1} = {s2[i] : i \in DOMAIN s2}

(* C13: get_member(value, column) on the members table fails with the      *)
(* not-found error when no row has the value, and otherwise returns the    *)
(* first row in insertion order that has it.                               *)
C13_GetOneFirstInserted ==
    (call.op = "get_member" /\ IsTable(tables, "members")) =>
        LET matches == Equal(disk, "members", call.column, call.value)
        IN  IF matches = <<>> THEN call.exc = "ValueError: not found"
            ELSE call.exc = "" /\ call.returned = <<matches[1]>>

(* C14: when a table that exists in the file lacks a configured column,    *)
(* the construction of HvzDb raises ConfigError and the file holds the     *)
(* tables it held before, no more.                                         *)
LacksConfiguredColumn(config, file) ==
    \E i \in DOMAIN config :
        /\ Exists(file, config[i].name)
        /\ \E c \in DOMAIN config[i].columns :
              Casefold(config[i].columns[c].name)
                  \notin ColumnNames(file[Casefold(config[i].name)].columns)

C14_FailedReconcileCreatesNothing ==
    [][(call.op = "start" /\ LacksConfiguredColumn(database_config, disk))
          => (call'.exc = "ConfigError" /\ disk' = disk)]_vars

(* C14 witness: construction failed on the members table after a table of  *)
(* tags, absent from the file, had been processed                          *)
C14_Witness ==
    /\ call.op = "__post_init__" /\ call.exc = "ConfigError"
    /\ database_config[1].name = "tags"
    /\ "tags" \notin DOMAIN disk

(* C15: a successful add_row, edit_row or delete_row on a table of         *)
(* database_config has called update_table once with that table's name; a  *)
(* write that failed, or one on another table, has called nothing.         *)
C15_HookAfterMirroredWrite ==
    call.op \in Writes =>
        IF call.exc = "" /\ Mirrored(call.table)
        THEN Len(hooks) = 1 /\ hooks[1].table = MirrorName(call.table)
        ELSE hooks = <<>>

(* C15 witness: a row was deleted from the members table and the sheet told *)
C15_Witness ==
    /\ call.op = "delete_row" /\ call.exc = ""
    /\ hooks # <<>> /\ hooks[1].table = "members"


(* the rows of the table a call selected, before and after the call *)
Before(made) == Inserted(disk, made.table)
After(made) == Inserted(disk', made.table)

(* the change a successful write makes to its table: add_row appends the   *)
(* row under the casefolded keys, edit_row sets the target column of the   *)
(* rows that matched, delete_row leaves the rows that did not match        *)
Persisted(made) ==
    CASE made.op = "add_row" ->
            /\ Len(After(made)) = Len(Before(made)) + 1
            /\ SubSeq(After(made), 1, Len(Before(made))) = Before(made)
            /\ \A k \in DOMAIN made.row :
                  After(made)[Len(After(made))][Casefold(k)] = made.row[k]
      [] made.op = "edit_row" ->
            /\ Len(After(made)) = Len(Before(made))
            /\ \A i \in DOMAIN Before(made) :
                  IF SqlEq(Before(made)[i][made.column], made.value)
                  THEN After(made)[i] =
                          [Before(made)[i] EXCEPT ![made.target_column] = made.target_value]
                  ELSE After(made)[i] = Before(made)[i]
      [] made.op = "delete_row" ->
            After(made) = SelectSeq(Before(made),
                              LAMBDA r : ~SqlEq(r[made.column], made.value))

Success(op) == IF op = "add_row" THEN "CursorResult" ELSE "True"

(* C16: when update_table raises during add_row, edit_row or delete_row,   *)
(* the call still returns its normal result to the caller and the change   *)
(* it wrote is in the file.                                                *)
C16_HookFailureSwallowed ==
    [][(call'.op \in Writes /\ hooks' # <<>> /\ hooks'[1].raised)
          => (/\ call'.exc = "" /\ call'.ret = Success(call'.op)
              /\ Persisted(call'))]_vars

(* C16 witness: add_row returned although the sheet raised, and the row is *)
(* in the members table                                                    *)
C16_Witness ==
    /\ call.op = "add_row" /\ call.exc = "" /\ call.ret = "CursorResult"
    /\ hooks # <<>> /\ hooks[1].raised
    /\ Equal(disk, call.table, "id", call.row["id"]) # <<>>

(* a call of edit_row or delete_row that names a table and columns of it *)
WellFormed(made) ==
    /\ made.op \in {"edit_row", "delete_row"}
    /\ IsTable(tables, made.table)
    /\ HasColumn(tables[made.table], made.column)
    /\ made.op = "edit_row" => HasColumn(tables[made.table], made.target_column)

(* the rows the search of a call matches *)
Hit(made) == Equal(disk, made.table, made.column, made.value)

NotFound(made) ==
    /\ call'.exc = "ValueError: not found"
    /\ disk' = disk
    /\ hooks' = <<>>

BreaksPrimaryKey(made) ==
    LET columns == Selected(made.table).columns
    IN  /\ made.op = "edit_row"
        /\ made.target_column \in PrimaryKey(columns)
        /\ \/ made.target_value.t = "null"
           \/ Len(Hit(made)) > 1
           \/ \E i \in DOMAIN Before(made) :
                 /\ ~SqlEq(Before(made)[i][made.column], made.value)
                 /\ SqlEq(Before(made)[i][made.target_column], made.target_value)

Lookup ==
    /\ call.op = "get_rows"
    /\ IsTable(tables, call.table)
    /\ HasColumn(tables[call.table], call.column)

(* C18: get_rows(table, column, value) with any value of the column, 0,    *)
(* False and '' included, returns exactly the rows whose column equals the *)
(* value, and raises the not-found error exactly when there is none.       *)
C18_GetManyEveryValue ==
    (Lookup /\ call.value # NULL /\ call.lower = NULL /\ call.upper = NULL) =>
        LET matches == Equal(disk, call.table, call.column, call.value)
        IN  IF matches = <<>> THEN call.exc = "ValueError: not found"
            ELSE call.exc = "" /\ SameRows(call.returned, matches)

(* C19: get_rows called with neither a search value nor both limits of a   *)
(* range raises the usage error without running a query, and no call       *)
(* filters by equality and by range at once.                               *)
C19_EqualityXorRange ==
    Lookup =>
        /\ (call.value = NULL /\ (call.lower = NULL \/ call.upper = NULL))
              => (call.exc = "ValueError: usage" /\ ~call.executed)
        /\ ~({"equal", "range"} \subseteq call.where)

(* C19 witness: the members table holds a row and get_rows, given only a   *)
(* lower limit, raised the usage error                                     *)
C19_Witness ==
    /\ Lookup /\ call.value = NULL /\ call.lower # NULL /\ call.upper = NULL
    /\ call.exc = "ValueError: usage"
    /\ Inserted(disk, call.table) # <<>>

(* the keys of the row name columns of the table once casefolded, and the  *)
(* primary key the row gives, if any, is held by no row                    *)
Insertable(made) ==
    LET columns == Selected(made.table).columns
    IN  /\ \A k \in DOMAIN made.row : Casefold(k) \in ColumnNames(columns)
        /\ \A k \in DOMAIN made.row :
              Casefold(k) \in PrimaryKey(columns) =>
                  Equal(disk, made.table, Casefold(k), made.row[k]) = <<>>

(* C20: add_row on a known table stores each value of the row in the       *)
(* column its key names once casefolded; add_row on an unknown table       *)
(* raises and writes nothing.                                              *)
C20_InsertCasefoldsKeys ==
    [][call'.op = "add_row" =>
          IF Known(call'.table)
          THEN Insertable(call') => (call'.exc = "" /\ Persisted(call'))
          ELSE call'.exc # "" /\ disk' = disk]_vars


----------------------------------------------------------------------------
(* The ThreadManager: the threads table it keeps and its cleanup at        *)
(* startup (on_ready).  threads is the set of ids of the threads that      *)
(* exist in the guild; cleanup is the on_ready coroutine: the table it     *)
(* read, the row it is at, and whether it awaits thread.delete(), has      *)
(* returned or has raised.                                                 *)

TABLE_NAME == "threads"

MaxThreads == 3
ThreadIds == 1 .. MaxThreads

(* the row create_thread adds for a thread *)
Recorded(thread_id) ==
    [thread_id |-> Integer(thread_id), member_id |-> Integer(thread_id),
     chatbot_type |-> String("registration")]

(* the tables an earlier run can have left: a row for each of some         *)
(* threads, in the order they were created                                 *)
LeftRecorded ==
    {<<>>} \cup {s \in SeqsUpTo(ThreadIds, MaxThreads) :
                    \A i, j \in DOMAIN s : s[i] = s[j] => i = j}

ThreadInit ==
    /\ database_config = << [name |-> "members", columns |-> MemberColumns] >>
    /\ \E left \in LeftRecorded :
          LET built == Reconcile(database_config, 1, <<>>, <<>>)
              prepared == prepare_table(built.disk, built.tables, TABLE_NAME, ThreadColumns)
          IN  /\ tables = prepared.tables
              /\ disk = Written(prepared.disk, prepared.tables[TABLE_NAME],
                                [i \in DOMAIN left |-> Recorded(left[i])])
    /\ call = Call("prepare_table", TABLE_NAME)
    /\ hooks = <<>>
    /\ threads \in SUBSET ThreadIds
    /\ cleanup = None
    /\ ChatOff /\ LoadOff

(* the for loop of on_ready from row "at" up to its next await: the record *)
(* of a thread the guild does not have is deleted; a thread the guild has  *)
(* is to be deleted, which the coroutine awaits                            *)
RECURSIVE Sweep(_, _, _, _)
Sweep(file, table, at, existing) ==
    IF at > Len(table) THEN [disk |-> file, at |-> at, state |-> "returned"]
    ELSE IF table[at]["thread_id"].n \in existing
    THEN [disk |-> file, at |-> at, state |-> "awaiting"]
    ELSE LET out == delete_row(file, tables, database_config, TABLE_NAME,
                               "thread_id", table[at]["thread_id"])
         IN  IF out.exc # "" THEN [disk |-> file, at |-> at, state |-> "raised"]
             ELSE Sweep(out.disk, table, at + 1, existing)

(* on_ready goes on from row "at" *)
Proceed(table, at, existing) ==
    LET swept == Sweep(disk, table, at, existing)
    IN  /\ cleanup' = Some([table |-> table, at |-> swept.at, state |-> swept.state])
        /\ disk' = swept.disk
        /\ call' = [Call("on_ready", TABLE_NAME) EXCEPT
                       !.exc = IF swept.state = "raised" THEN "ValueError: not found"
                               ELSE ""]
        /\ hooks' = <<>>

(* ThreadManager.on_ready up to its first await *)
on_ready ==
    /\ cleanup = None
    /\ Proceed(get_table(disk, tables, TABLE_NAME).returned, 1, threads)
    /\ UNCHANGED <<threads, database_config, tables, chat_vars, load_vars>>

(* what await thread.delete() can come to: the thread is deleted, or the   *)
(* bot may not delete it (discord.Forbidden, caught and logged), or the    *)
(* request fails otherwise (discord.HTTPException, not caught)             *)
Deletions == {"deleted", "Forbidden", "HTTPException"}

(* await thread.delete() settles and on_ready goes on *)
thread_delete(how) ==
    /\ cleanup # None /\ cleanup[1].state = "awaiting"
    /\ LET at == cleanup[1].at
           thread_id == cleanup[1].table[at]["thread_id"].n
       IN  /\ threads' = IF how = "deleted" THEN threads \ {thread_id} ELSE threads
           /\ IF how = "HTTPException"
              THEN /\ cleanup' = Some([cleanup[1] EXCEPT !.state = "raised"])
                   /\ call' = [Call("on_ready", TABLE_NAME) EXCEPT !.exc = "HTTPException"]
                   /\ hooks' = <<>>
                   /\ disk' = disk
              ELSE Proceed(cleanup[1].table, at + 1, threads')
    /\ UNCHANGED <<database_config, tables, chat_vars, load_vars>>

(* ThreadManager.delete_thread(thread_id), which delayed_delete runs after  *)
(* its delay, here once the cleanup at startup has ended; how is what      *)
(* await thread.delete() comes to, and every exception of it is caught and *)
(* logged.  get_rows is called outside any try, delete_row inside one.     *)
delete_thread(thread_id, how) ==
    LET made == [Call("delete_thread", TABLE_NAME) EXCEPT
                    !.column = "thread_id", !.value = Integer(thread_id)]
        found == get_rows(disk, tables, TABLE_NAME, "thread_id", Integer(thread_id),
                         NULL, NULL, None, NULL)
        out == delete_row(disk, tables, database_config, TABLE_NAME, "thread_id",
                          Integer(thread_id))
    IN  /\ cleanup # None /\ cleanup[1].state \in {"returned", "raised"}
        /\ hooks' = <<>>
        /\ IF thread_id \notin threads
           THEN call' = made /\ UNCHANGED <<threads, disk>>
           ELSE /\ threads' = IF how = "deleted" THEN threads \ {thread_id} ELSE threads
                /\ IF found.exc # ""
                   THEN call' = [made EXCEPT !.exc = found.exc] /\ disk' = disk
                   ELSE /\ call' = made
                        /\ disk' = IF Len(found.returned) # 0 THEN out.disk ELSE disk
        /\ UNCHANGED <<cleanup, database_config, tables, chat_vars, load_vars>>

(* what the two awaits of create_thread can come to: the thread is made    *)
(* and the member added, or channel.create_thread raises discord.Forbidden *)
(* (no thread is made), or thread.add_user raises it (the thread is made)  *)
Creations == {"created", "create Forbidden", "add_user Forbidden"}

(* ThreadManager.create_thread, once the cleanup at startup has ended;     *)
(* thread_id is the id the guild gives the new thread, one that no thread  *)
(* and no record has                                                       *)
create_thread(thread_id, how) ==
    LET made == [Call("create_thread", TABLE_NAME) EXCEPT
                    !.value = Integer(thread_id), !.row = Recorded(thread_id)]
        out == add_row(disk, tables, database_config, TABLE_NAME, Recorded(thread_id))
    IN  /\ cleanup # None /\ cleanup[1].state \in {"returned", "raised"}
        /\ thread_id \notin threads
        /\ \A i \in DOMAIN Of(disk, tables[TABLE_NAME]).rows :
              Of(disk, tables[TABLE_NAME]).rows[i]["thread_id"] # Integer(thread_id)
        /\ hooks' = <<>>
        /\ threads' = IF how = "create Forbidden" THEN threads
                      ELSE threads \cup {thread_id}
        /\ IF how = "created"
           THEN call' = [made EXCEPT !.exc = out.exc] /\ disk' = out.disk
           ELSE call' = [made EXCEPT !.exc = "ValueError"] /\ disk' = disk
        /\ UNCHANGED <<cleanup, database_config, tables, chat_vars, load_vars>>

ThreadNext ==
    \/ on_ready
    \/ \E how \in Deletions : thread_delete(how)
    \/ \E thread_id \in ThreadIds, how \in Deletions : delete_thread(thread_id, how)

ThreadSpec == ThreadInit /\ [][ThreadNext]_vars

(* C12: when on_ready has returned, every thread the table recorded is     *)
(* gone from the guild and the threads table is empty.                     *)
C12_CleanupLeavesNothing ==
    (cleanup # None /\ cleanup[1].state = "returned") =>
        /\ \A i \in DOMAIN cleanup[1].table :
              cleanup[1].table[i]["thread_id"].n \notin threads
        /\ Inserted(disk, TABLE_NAME) = <<>>

(* C30: delete_thread for a thread the guild no longer has, or called a    *)
(* second time, straight after a call for the same thread that raised      *)
(* nothing, raises no error and leaves the threads table as it was.        *)
C30_DeleteThreadIdempotent ==
    [][\A thread_id \in ThreadIds, how \in Deletions :
          (/\ delete_thread(thread_id, how)
           /\ \/ thread_id \notin threads
              \/ /\ call.op = "delete_thread" /\ call.value = Integer(thread_id)
                 /\ call.exc = "")
              => call'.exc = "" /\ disk' = disk]_vars

----------------------------------------------------------------------------
(* to_column_type on its own: the values callers pass it, one call at a    *)
(* time.  The argument of the call is recorded in call.value, the member   *)
(* it returns in call.returned.                                            *)

MaxPad == 1

(* texts that are synonyms, and some that are not *)
TypeNames ==
    DOMAIN STR_TO_COLUMN \cup {"number", "float", "incr integer"}

TypeInputs ==
    {INTEGER, INCR_INTEGER, BOOLEAN_, STRING_, DATETIME}
      \cup {Spelled(name, upper, left, right) :
               name \in TypeNames, upper \in BOOLEAN,
               left \in 0 .. MaxPad, right \in 0 .. MaxPad}

TypeInit ==
    /\ database_config = <<>> /\ disk = <<>> /\ tables = <<>>
    /\ call = Call("start", "")
    /\ hooks = <<>>
    /\ ChatOff /\ LoadOff /\ ThreadOff

ToColumnType(x) ==
    /\ call' = [Call("to_column_type", "") EXCEPT
                   !.value = x,
                   !.exc = IF to_column_type(x) = None THEN "TypeError" ELSE "",
                   !.returned = to_column_type(x)]
    /\ UNCHANGED <<database_config, disk, tables, hooks, chat_vars, load_vars, thread_vars>>

TypeNext == \E x \in TypeInputs : ToColumnType(x)

TypeSpec == TypeInit /\ [][TypeNext]_vars

(* the member of the enumeration each synonym names *)
Synonyms ==
    [s \in DOMAIN STR_TO_COLUMN |->
        CASE s \in {"string", "str"} -> "STRING"
          [] s \in {"integer", "int"} -> "INTEGER"
          [] s \in {"incrementing_integer", "incr_integer"} -> "INCR_INTEGER"
          [] s \in {"boolean", "bool"} -> "BOOLEAN"
          [] OTHER -> "DATETIME"]

(* C21: to_column_type returns the member a synonym names, whatever the    *)
(* letter case of the text and the white space around it, the five members *)
(* being five different values; it returns a member given to it; and it    *)
(* raises TypeError for any other text.                                    *)
C21_SynonymsToDistinctMembers ==
    call.op = "to_column_type" =>
        IF call.value.enum THEN call.exc = "" /\ call.returned = <<call.value>>
        ELSE IF call.value.v \in DOMAIN Synonyms
        THEN /\ call.exc = ""
             /\ call.returned[1].enum
             /\ call.returned[1].v = Synonyms[call.value.v]
        ELSE call.exc = "TypeError"


(* C22: when every configured column of the tables the file holds is there *)
(* under its name in some letter case, the construction of HvzDb raises no *)
(* ConfigError; and the columns of every table of the file have lower-case *)
(* names.                                                                  *)
C22_ColumnNamesWhateverCase ==
    [][(call.op = "start" /\ ~LacksConfiguredColumn(database_config, disk))
          => /\ call'.exc # "ConfigError"
             /\ \A t \in DOMAIN disk' :
                   \A name \in ColumnNames(disk'[t].columns) : Casefold(name) = name]_vars

(* the columns a table was made from: those of its item of database_config *)
(* or those the ThreadManager passes                                       *)
ConfiguredFor(t) ==
    IF t = TABLE_NAME THEN ThreadColumns
    ELSE database_config[CHOOSE i \in DOMAIN database_config :
                            Casefold(database_config[i].name) = t].columns

(* the configured type is the auto-increment integer, as a member or as a  *)
(* synonym of it                                                           *)
IsAutoIncrement(type) ==
    IF type.enum THEN type.v = "INCR_INTEGER"
    ELSE /\ type.v \in DOMAIN Synonyms
         /\ Synonyms[type.v] = "INCR_INTEGER"

(* C24: a table the database creates has one column for each configured    *)
(* column, under its casefolded name, and a column is the primary key      *)
(* exactly when its configured type is the auto-increment integer.         *)
C24_PrimaryKeyIffAutoIncrement ==
    [][\A t \in (DOMAIN disk') \ (DOMAIN disk) :
          LET made == disk'[t].columns
              configured == ConfiguredFor(t)
          IN  /\ Len(made) = Len(configured)
              /\ \A c \in DOMAIN made :
                    /\ made[c].name = Casefold(configured[c].name)
                    /\ made[c].primary_key <=> IsAutoIncrement(configured[c].type)]_vars


(* the questions of the scripts the catalog holds *)
LoadedQuestions ==
    UNION {{e.val._questions[i] : i \in DOMAIN e.val._questions} : e \in catalog}

PatternAlone(question_data) ==
    /\ Get(question_data, "valid_regex") # None
    /\ Get(question_data, "rejection_response") = None

(* C23: once __init__ has run, no question of the catalog has a pattern    *)
(* without a rejection message, and a script with such a question is not   *)
(* in the catalog.                                                         *)
C23_PatternOnlyWithRejection ==
    loader # "start" =>
        /\ \A q \in LoadedQuestions :
              q.valid_regex # None => q.rejection_response # None
        /\ \A i \in DOMAIN scripts_data :
              (\E q \in DOMAIN scripts_data[i].script.questions :
                  PatternAlone(scripts_data[i].script.questions[q]))
                  => DictGet(catalog, scripts_data[i].kind) = None

(* a required attribute is absent, null, not a string, or the empty string *)
NotNonEmptyString(question_data) ==
    \E a \in DOMAIN required_attributes :
        \/ Get(question_data, required_attributes[a]) = None
        \/ question_data[required_attributes[a]].type # "str"
        \/ question_data[required_attributes[a]].v = ""

(* C25: once __init__ has run, a script with a question one of whose       *)
(* required attributes is not a non-empty string has made it raise, and is *)
(* not in the catalog.                                                     *)
C25_RequiredNonEmptyStrings ==
    loader # "start" =>
        \A i \in DOMAIN scripts_data :
            (\E q \in DOMAIN scripts_data[i].script.questions :
                NotNonEmptyString(scripts_data[i].script.questions[q])) =>
                /\ loader = "ValueError"
                /\ DictGet(catalog, scripts_data[i].kind) = None


(* C26: a ChatBot that has just been created is at question 0, is neither  *)
(* processing nor reviewing, has an answer None for every question name of *)
(* its script and for nothing else, and, no target being given, has its    *)
(* chat member as target.                                                  *)
C26_NewSessionInitialState ==
    [][\A id \in (DOMAIN chatbots') \ (DOMAIN chatbots) :
          LET new == chatbots'[id]
              questions == loaded_scripts[new.script].questions
          IN  /\ new.last_asked_question = 0
              /\ ~new.processing /\ ~new.reviewing
              /\ DOMAIN new.responses = {questions[i].name : i \in DOMAIN questions}
              /\ \A n \in DOMAIN new.responses : new.responses[n] = None
              /\ new.target_member = new.chat_member]_vars

(* C26 witness: start_chatbot has created and registered a session for the *)
(* tag_logging script and awaits the send of its opening prompt            *)
C26_Witness ==
    \E t \in tasks :
        /\ t.coroutine = "start_chatbot"
        /\ Registered(t.member) /\ SessionId(t.member) = t.chatbot
        /\ chatbots[t.chatbot].script = "tag_logging"
        /\ DOMAIN chatbots[t.chatbot].responses = {"tag_code"}


(* C27: start_chatbot for a script of the catalog sends an opening prompt  *)
(* that begins with the notice of cancellation, naming the kind of the     *)
(* session the participant had, exactly when they had one, and goes on     *)
(* with the opening text of the script and its first question.             *)
C27_CancellationNoticeIffRestart ==
    [][\A p \in Members, kind \in Kinds :
          StartChatbot(p, kind, None)
          => \E t \in tasks' :
                /\ t.coroutine = "start_chatbot" /\ t.member = p
                /\ t.msg = (IF Registered(p)
                            THEN << Part("cancelled", Session(p).script, None) >>
                            ELSE <<>>)
                           \o << Text(loaded_scripts[kind].beginning),
                                 Text(get_question(kind, 0).query) >>]_vars


----------------------------------------------------------------------------
(* The conversation engine with two participants whose calls and messages  *)
(* interleave: both use the registration script.                           *)

Participants == {"p1", "p2"}

RouteInit ==
    /\ active_chatbots = {} /\ chatbots = <<>> /\ tasks = {}
    /\ outbox = [p \in Participants |-> None]
    /\ result = [p \in Participants |-> "none"]
    /\ rows = <<>>
    /\ LoadOff /\ DbOff /\ ThreadOff

(* the direct message they write: an answer of digits *)
RouteMessages == {Direct(<<"1">>)}

(* the calls and messages in flight at a time *)
MaxInFlight == 2

RouteNext ==
    \/ /\ Cardinality(tasks) < MaxInFlight
       /\ \E p \in Participants : StartChatbot(p, "registration", None)
       /\ UNCHANGED <<load_vars, db_vars, thread_vars>>
    \/ /\ Cardinality(tasks) < MaxInFlight
       /\ \E p \in Participants, message \in RouteMessages : OnMessage(p, message)
       /\ UNCHANGED <<load_vars, db_vars, thread_vars>>
    \/ /\ \E t \in tasks : SendOk(t)
       /\ UNCHANGED <<load_vars, db_vars, thread_vars>>
    \/ /\ \E t \in tasks : SendFails(t)
       /\ UNCHANGED <<load_vars, db_vars, thread_vars>>

RouteSpec == RouteInit /\ [][RouteNext]_vars

(* the registry entry and the session of every participant but p are as    *)
(* they were                                                               *)
OthersUntouched(p) ==
    \A q \in Participants \ {p} :
        /\ Items(active_chatbots', q) = Items(active_chatbots, q)
        /\ \A e \in Items(active_chatbots, q) : chatbots'[e.val] = chatbots[e.val]

(* C28: a message of p, from its arrival in on_message to the end of the   *)
(* handler after its send, leaves the session and the registry entry of    *)
(* every other participant as they were; a message of a participant        *)
(* without a session changes no session and no entry.                      *)
C28_MessageRoutedToOwnSession ==
    [][/\ \A p \in Participants, message \in RouteMessages :
             OnMessage(p, message) =>
                 /\ OthersUntouched(p)
                 /\ ~Registered(p) =>
                       (active_chatbots' = active_chatbots /\ chatbots' = chatbots)
       /\ \A t \in tasks :
             (t.coroutine = "on_message" /\ (SendOk(t) \/ SendFails(t)))
                 => OthersUntouched(t.member)]_vars

(* C28 witness: both participants have a session; p1 has answered the      *)
(* first question and is asked the second, p2 is still at the first        *)
C28_Witness ==
    /\ Registered("p1") /\ Registered("p2") /\ tasks = {}
    /\ Session("p1").last_asked_question = 1
    /\ Session("p1").responses["email"] # None
    /\ Session("p2").last_asked_question = 0
    /\ Session("p2").responses["email"] = None


----------------------------------------------------------------------------
(* The table of tags: rows are added and looked up with get_tag, with and  *)
(* without the filter on revoked tags.                                     *)

TagColumns ==
    << Configured("tag_id", INTEGER), Configured("tagger_name", STRING_),
       Configured("revoked_tag", BOOLEAN_) >>

TagInit ==
    /\ database_config = << [name |-> "tags", columns |-> TagColumns] >>
    /\ disk = <<>>
    /\ tables = <<>>
    /\ call = Call("start", "")
    /\ hooks = <<>>
    /\ ChatOff /\ LoadOff /\ ThreadOff

(* tags of one tagger: revoked, not revoked, or with the cell left empty *)
TagRows ==
    {[tag_id |-> Integer(i), tagger_name |-> String("a"), revoked_tag |-> r] :
        i \in 0 .. MaxId, r \in {Boolean(TRUE), Boolean(FALSE), NULL}}

(* get_tag(value, column): by tag_id or by the name of the tagger *)
GetTagCalls ==
    {<<Integer(i), None>> : i \in 0 .. MaxId}
      \cup {<<String("a"), Some("tagger_name")>>, <<String("b"), Some("tagger_name")>>}

(* the call record keeps the exclusion of get_tag in target_column and     *)
(* target_value                                                            *)
GetTag(value, column, filter_revoked) ==
    /\ Constructed
    /\ Finish([Call("get_tag", "tags") EXCEPT
                  !.column = IF column = None THEN "tag_id" ELSE column[1],
                  !.value = value,
                  !.target_column = IF filter_revoked THEN "revoked_tag" ELSE "",
                  !.target_value = IF filter_revoked THEN Boolean(TRUE) ELSE NULL],
              get_tag(disk, tables, value, column, filter_revoked), "ok")
    /\ UNCHANGED <<database_config, tables, chat_vars, load_vars, thread_vars>>

TagNext ==
    \/ Construct
    \/ \E row \in TagRows : AddRow("tags", row, "ok")
    \/ \E c \in GetTagCalls, filter_revoked \in BOOLEAN : GetTag(c[1], c[2], filter_revoked)

TagSpec == TagInit /\ [][TagNext]_vars

(* the rows of the tags table, in the order they were inserted, whose      *)
(* column equals the value and whose revoked_tag is not the excluded value *)
NotExcluded(made) ==
    SelectSeq(Of(disk, tables["tags"]).rows,
              LAMBDA r : /\ SqlEq(r[made.column], made.value)
                         /\ r[made.target_column] # made.target_value)

(* C29: get_tag with the filter on revoked tags returns the first row      *)
(* whose column equals the value and whose revoked_tag is not True, and    *)
(* fails with the not-found error when there is no such row: a row whose   *)
(* revoked_tag is True is never returned.                                  *)
C29_ExclusionFirstNotExcluded ==
    (call.op = "get_tag" /\ call.target_column # "") =>
        IF NotExcluded(call) = <<>>
        THEN call.exc = "ValueError: not found"
        ELSE call.exc = "" /\ call.returned = << NotExcluded(call)[1] >>


----------------------------------------------------------------------------
(* Properties of the conversation engine across its awaits.                *)

(* C31: a registered session on which no on_message handler is suspended   *)
(* has its processing flag reset: once the handling of a message has       *)
(* ended, however it ended, the session is out of the registry or takes    *)
(* the next message.                                                       *)
C31_NoSessionStuck ==
    \A e \in active_chatbots :
        Handlers(e.val) = {} => ~chatbots[e.val].processing


PromptOf(kind, msg) ==
    {i \in 0 .. Length(kind) - 1 : msg[Len(msg)] = Text(get_question(kind, i).query)}

C34_ReviewingHoldsEveryAnswer ==
    \A id \in DOMAIN chatbots :
        chatbots[id].reviewing
            => Collected(chatbots[id].responses) = DOMAIN response_dict(chatbots[id].script)

(* C34 witness: a session of the script with two questions has its         *)
(* reviewing flag set                                                      *)
C34_Witness ==
    \E id \in DOMAIN chatbots :
        chatbots[id].reviewing /\ Length(chatbots[id].script) = 2


----------------------------------------------------------------------------
(* C35: when update_table runs for an insert, an update or a delete, what  *)
(* it reads from the table is what the write has left there: the write is  *)
(* committed before the hook is called.                                    *)
C35_HookSeesCommittedWrite ==
    call.op \in Writes =>
        \A i \in DOMAIN hooks : hooks[i].seen = Seen(disk, hooks[i].table)


----------------------------------------------------------------------------
(* The threads of a run: after a startup that found the threads table      *)
(* empty and the guild without threads, threads are created and deleted.   *)
LifeInit ==
    /\ database_config = << [name |-> "members", columns |-> MemberColumns] >>
    /\ LET built == Reconcile(database_config, 1, <<>>, <<>>)
           prepared == prepare_table(built.disk, built.tables, TABLE_NAME, ThreadColumns)
       IN  tables = prepared.tables /\ disk = prepared.disk
    /\ call = Call("on_ready", TABLE_NAME)
    /\ hooks = <<>>
    /\ threads = {}
    /\ cleanup = Some([table |-> <<>>, at |-> 1, state |-> "returned"])
    /\ ChatOff /\ LoadOff

LifeNext ==
    \/ \E thread_id \in ThreadIds, how \in Creations : create_thread(thread_id, how)
    \/ \E thread_id \in ThreadIds, how \in Deletions : delete_thread(thread_id, how)

LifeSpec == LifeInit /\ [][LifeNext]_vars

(* C36: when create_thread has ended, in whatever way, the thread it made  *)
(* has a record in the threads table if it is in the guild.                *)
C36_CreatedThreadRecorded ==
    [][\A thread_id \in ThreadIds, how \in Creations :
          (create_thread(thread_id, how) /\ thread_id \in threads')
              => \E i \in DOMAIN Inserted(disk', TABLE_NAME) :
                    Inserted(disk', TABLE_NAME)[i] = Recorded(thread_id)]_vars


(* C37: when delete_thread for a thread that has a record in the threads   *)
(* table has ended, the table holds no record of that thread, whether the  *)
(* call deleted the thread, could not delete it, or found it gone.         *)
C37_DeleteThreadRemovesRecord ==
    [][\A thread_id \in ThreadIds, how \in Deletions :
          (/\ delete_thread(thread_id, how)
           /\ \E i \in DOMAIN Inserted(disk, TABLE_NAME) :
                 Inserted(disk, TABLE_NAME)[i]["thread_id"] = Integer(thread_id))
              => \A i \in DOMAIN Inserted(disk', TABLE_NAME) :
                    Inserted(disk', TABLE_NAME)[i]["thread_id"] # Integer(thread_id)]_vars

=============================================================================
